---- MODULE Spec2Model ----
(***************************************************************************)
(* KrishiLok trust engine: the trust_feedback table, the AFTER INSERT      *)
(* trigger update_suggestion_usefulness, the function                      *)
(* calculate_trust_score and the response flags that feed it.              *)
(*                                                                         *)
(* DECIMAL(5,2) columns are kept as integers in hundredths (50.00 = 5000). *)
(* Every session runs its INSERT in autocommit mode under PostgreSQL's     *)
(* default READ COMMITTED isolation: a statement sees the rows committed    *)
(* before it started plus the rows of its own transaction.                 *)
(***************************************************************************)
EXTENDS Integers, FiniteSets, Sequences, TLC

\* ---------------------------------------------------------------- bounds
NumUsers == 3
NumSuggestions == 2
NumTxns == 2
NumPosts == 2
MaxFeedback == 3       \* rows inserted by one session after another
MaxRaceFeedback == 2   \* rows inserted by concurrent sessions
MaxTrustFeedback == 2  \* rows inserted while response flags change
MaxRankFeedback == 2   \* rows inserted before a ranked view is read
MaxFrameFeedback == 2  \* rows inserted on any suggestion while flags change
NumDiseases == 2       \* distinct values of suggestions.disease_name
MaxViews == 1          \* largest community_posts.view_count
MaxNewResponses == 2   \* post_responses rows beyond the first one of each post

\* ------------------------------------------------------ program constants
Scale == 100          \* DECIMAL(5,2): two decimal places
BaseScore == 50       \* base_score / DEFAULT 50.0
MinScore == 1         \* CHECK (score >= 1 ...
MaxScore == 5         \* ... AND score <= 5)
NeutralScore == 3     \* (AVG(score) - 3)
UsefulnessWeight == 20
AcceptedWeight == 10
FeedbackWeight == 5
VerifiedWeight == 3
PositiveThreshold == 4
NegativeThreshold == 2
LowerBound == 0
UpperBound == 100
SuggestionLimit == 10    \* Get Suggestions for Disease: LIMIT 10
ContributorLimit == 20   \* Get Top Community Contributors: LIMIT 20

NULL == 0 - 1         \* SQL NULL (no id and no score is negative)

Users == 1..NumUsers
Suggestions == 1..NumSuggestions
Txns == 1..NumTxns
Posts == 1..NumPosts
\* post_responses: one response per post
Responses == 1..NumPosts

\* inputs of a request: any integer score around the legal range, and one
\* suggestion id that names no row
ScoreInputs == (MinScore - 1)..(MaxScore + 1)
SuggestionInputs == 1..(NumSuggestions + 1)
\* the first suggestion and the id that names no row
OneSuggestion == {1, NumSuggestions + 1}

\* suggestions.user_id (the author), fixed at creation
SuggestionAuthor(s) == ((s - 1) % NumUsers) + 1
\* post_responses.post_id and post_responses.user_id, fixed at creation:
\* user 1 answered the first two posts, user 2 the others
ResponsePost(r) == r
ResponseAuthor(r) == IF r <= 2 THEN 1 ELSE 2

\* users.role: the last user is an expert, the others are farmers
UserRole(u) == IF u = NumUsers THEN "expert" ELSE "farmer"
\* created_at DEFAULT CURRENT_TIMESTAMP: rows are numbered in creation order
SuggestionCreatedAt(s) == s
PostCreatedAt(p) == p
\* community_posts.crop_name and community_posts.tags, fixed at creation;
\* names are atoms none of which is a substring of another
Diseases == 1..NumDiseases
Crops == {1, 2}
Tags == {1, 2}
PostCrop(p) == ((p - 1) % 2) + 1
PostTags(p) == IF p % 2 = 1 THEN {1} ELSE {1, 2}

\* ids of the post_responses rows a session can insert
NewResponses == (NumPosts + 1)..(NumPosts + MaxNewResponses)
\* a session that runs no statement on post_responses
NoStatement == [pc |-> "idle", row |-> NULL, post |-> NULL, delta |-> 0, seen |-> 0, written |-> 0]

\* no ranked view was returned by the step; of a request the view keeps the
\* argument that names the disease or the sort order
NoRanking == [kind |-> "none", arg |-> <<>>, rows |-> <<>>]

\* ------------------------------------------------------ community dashboard
\* getCommunityScans(0, 20, ...): the dashboard asks for one page of the feed
PageSkip == 0
PageLimit == 20

\* a post counts as resolved from this many comments on
ResolvedThreshold == 3

\* largest feed explored, scans in it that differ from the common kind,
\* requests the dashboard may have in flight at once, and requests it
\* starts in all
MaxScans == 21
MaxRare == 1
MaxPending == 2
MaxLoads == 3

\* the search box when nothing is typed; any other query names a crop
EmptyQuery == 0
SearchInputs == {EmptyQuery} \cup Crops
TabInputs == {"all", "unresolved", "resolved"}

\* what the feed endpoint knows of a scan, apart from its id
CommonScan == [crop_name |-> 1, comments_count |-> 0]
RareScans == {[crop_name |-> 2, comments_count |-> 0],
              [crop_name |-> 1, comments_count |-> ResolvedThreshold]}

\* the subsets of S of at most k elements
RECURSIVE SmallSubsets(_, _)
SmallSubsets(S, k) ==
    IF k = 0 THEN {{}}
    ELSE LET smaller == SmallSubsets(S, k - 1)
         IN  smaller \cup {T \cup {x} : T \in smaller, x \in S}

FeedOf(n, rare, kinds) ==
    [i \in 1..n |->
        LET scan == IF i \in rare THEN kinds[i] ELSE CommonScan
        IN  [id |-> i, crop_name |-> scan.crop_name,
             comments_count |-> scan.comments_count]]

Feeds ==
    UNION {UNION {{FeedOf(n, rare, kinds) : kinds \in [rare -> RareScans]} :
                    rare \in SmallSubsets(1..n, MaxRare)} :
             n \in 0..MaxScans}

\* no request: requests are numbered from 1 in the order they start
NoRequest == [id |-> 0, language |-> "none"]

\* the component as mounted: no posts, the loading flag up, an empty search
\* box, the first tab, the default language; pending holds the requests in
\* flight, started counts the requests started, shown is the request whose
\* scans are in posts and newestLoaded the latest-started request that has
\* delivered scans so far
NoDashboard == [posts |-> <<>>, isLoading |-> TRUE, searchQuery |-> EmptyQuery,
                tab |-> "all", currentLanguage |-> "en", pending |-> {},
                started |-> 0, shown |-> NoRequest, newestLoaded |-> 0]

\* ------------------------------------------------------- trust score popup
\* the score starts in the middle; the stars and the slider set it
DefaultScore == 3
StarInputs == 1..5

\* a popup as mounted; call is the state of its last submitTrustScore
\* promise: "none", "pending", "resolved" or "rejected"
NoPopup == [open |-> FALSE, score |-> DefaultScore, isSubmitting |-> FALSE,
            call |-> "none"]

\* ----------------------------------------------------------- solution page
\* SolutionPage as mounted: closed, nothing marked as tried, nothing expanded
NoSolutionPage == [open |-> FALSE, selectedSuggestion |-> NULL,
                   expandedSuggestion |-> NULL]

\* -------------------------------------------------------------- index page
\* largest number of community advice entries a scan carries, and the
\* number of entries of mockCommunityAdvice
MaxAdvice == 3
MockAdviceCount == 2

\* values the isCommon field of a response can hold
IsCommonInputs == {"true", "false", "undefined"}

\* a || b on these values
JsOr(a, b) == IF a \in {"false", "undefined"} THEN b ELSE a

\* diseaseData before anything is loaded (null), the fallback shown then
\* and on failure, and the data part of a scan response
NoDiseaseData == [loaded |-> FALSE, isCommon |-> "undefined", communityAdvice |-> 0]
mockDiseaseData == [loaded |-> TRUE, isCommon |-> "true", communityAdvice |-> MockAdviceCount]
NoScanData == [isCommon |-> "none", communityAdvice |-> 0]
ScanData == [isCommon : IsCommonInputs, communityAdvice : 0..MaxAdvice]

\* Index as mounted; request is "none", "byId" or "latest", received the
\* scan the data on screen was taken from
NoIndexPage == [diseaseData |-> NoDiseaseData, isLoading |-> TRUE,
                request |-> "none", received |-> NoScanData]

\* -------------------------------------------------------- language context
\* open tabs of the application, and storage events a tab may have waiting
NumTabs == 2
MaxStorageEvents == 2
BrowserTabs == 1..NumTabs
Languages == {"en", "ta", "kn"}

\* localStorage without the key preferredLanguage ("none"); every provider
\* starts on the default language and has no storage event waiting
NoLanguage == [preferredLanguage |-> "none",
               currentLanguage |-> [tab \in BrowserTabs |-> "en"],
               storageEvents |-> [tab \in BrowserTabs |-> <<>>]]

\* ----------------------------------------------------------- question card
\* answers of the question, with the props helpful and isVerified of each
NumAnswers == 3
Answers == 1..NumAnswers
AnswerHelpful(a) == 2 * a
AnswerVerified(a) == a # 2

\* an AnswerCard as mounted
NoAnswerCard(a) == [showVerification |-> FALSE, helpfulCount |-> AnswerHelpful(a),
                    hasVoted |-> FALSE]

\* QuestionCard as mounted: answers hidden, so no AnswerCard is mounted and
\* cards holds what each will start from; clicked records the answers the
\* user has marked as helpful so far
NoQuestionCard == [showAnswers |-> FALSE,
                   cards |-> [a \in Answers |-> NoAnswerCard(a)],
                   clicked |-> {}]

\* ------------------------------------------------------------- voice input
\* MediaRecorder objects created, and getUserMedia calls awaited at once
MaxRecordings == 3
MaxStarting == 1
Recorders == 1..MaxRecordings

\* CropScan's voice input as mounted. A chunk is written as the recorder it
\* came from; recorder[r] is "none" (not created), "recording", "stopping"
\* (stop() called, its events not yet fired) or "stopped"; starting counts
\* the calls waiting for getUserMedia, transcribing those waiting for
\* transcribeAudio; requests lists the blobs sent, each with the recorder
\* whose stop built it
NoVoiceInput == [isRecording |-> FALSE, isTranscribing |-> FALSE,
                 audioChunksRef |-> <<>>, mediaRecorderRef |-> NULL,
                 recorder |-> [r \in Recorders |-> "none"],
                 starting |-> 0, transcribing |-> 0, requests |-> <<>>]

\* every other component as mounted
NoBrowser == [solution |-> NoSolutionPage, index |-> NoIndexPage,
              language |-> NoLanguage, question |-> NoQuestionCard,
              voice |-> NoVoiceInput]

VARIABLES
    trust_feedback,        \* set of rows; xid = 0 once committed, else the inserting session
    suggestions,           \* committed suggestions rows: the three cached columns
    trust_score,           \* users.trust_score, hundredths
    is_verified,           \* post_responses.is_verified
    accepted_response_id,  \* community_posts.accepted_response_id (NULL or a response)
    pc,                    \* per session: position inside INSERT + trigger
    v_usefulness,          \* per session: the trigger's local variable
    counts,                \* per session: the UPDATE's two sub-select results
    response,              \* what the last step returned to its caller ("none": nothing yet)
    disease_name,          \* suggestions.disease_name
    is_resolved,           \* community_posts.is_resolved
    view_count,            \* community_posts.view_count
    response_count,        \* community_posts.response_count, committed value
    post_responses,        \* rows [id, post_id, xmin, xmax]: xmin the inserting and
                           \* xmax the deleting session while uncommitted, else 0
    rtx,                   \* per session: its statement on post_responses
    ranking,               \* the ranked view the last step returned (NoRanking: none)
    feed,                  \* the community scans the feed endpoint serves, in feed order
    dash,                  \* CommunityDashboard: its state hooks and requests in flight
    popup,                 \* per suggestion: the TrustScorePopup opened for it
    toast,                 \* the notice shown last ("none": nothing yet)
    notifications,         \* rows of the notifications table
    browser                \* the other mounted components, one field each

feedback_vars == <<trust_feedback, suggestions, trust_score, is_verified,
                   accepted_response_id, pc, v_usefulness, counts>>
post_vars == <<is_resolved, view_count, response_count, post_responses, rtx>>
ui_vars == <<feed, dash, popup, toast, notifications, browser>>

vars == <<feedback_vars, response, disease_name, post_vars, ranking, ui_vars>>

\* what a step of the feedback path or a flag change leaves alone
engine_frame ==
    /\ ranking' = NoRanking
    /\ UNCHANGED <<disease_name, post_vars, ui_vars>>

\* ------------------------------------------------------------- arithmetic
RECURSIVE SumScores(_)
SumScores(rows) ==
    IF rows = {} THEN 0
    ELSE LET f == CHOOSE x \in rows : TRUE
         IN  f.score + SumScores(rows \ {f})

\* numeric rounding to the column scale: half away from zero (a >= 0, b > 0)
RoundDiv(a, b) == (2 * a + b) \div (2 * b)

\* GREATEST / LEAST ignore NULL arguments
Greatest(a, b) == IF a = NULL THEN b ELSE IF b = NULL THEN a ELSE IF a >= b THEN a ELSE b
Least(a, b) == IF a = NULL THEN b ELSE IF b = NULL THEN a ELSE IF a <= b THEN a ELSE b

\* mutant: the clamp left out
ClampNone(x) == x

\* LEAST(GREATEST(x, 0), 100), x in hundredths
Clamp(x) == Least(Greatest(x, LowerBound * Scale), UpperBound * Scale)

\* -------------------------------------------------------------- snapshots
Committed(rows) == {f \in rows : f.xid = 0}
\* rows a statement of session t sees
Visible(t) == {f \in trust_feedback : f.xid = 0 \/ f.xid = t}
\* the row session t inserted (NEW in the trigger)
NewRow(t) == CHOOSE f \in trust_feedback : f.xid = t

\* mutant: a weight of 25 per rating point, which puts an average of 5 at 100
UsefulnessExprWeight25(rows) ==
    IF rows = {} THEN NULL
    ELSE RoundDiv(Scale * (BaseScore * Cardinality(rows)
                    + 25 * (SumScores(rows) - NeutralScore * Cardinality(rows))),
                  Cardinality(rows))

\* mutant: the neutral score is not subtracted, 50.0 + AVG(score) * 20
UsefulnessExprNotCentred(rows) ==
    IF rows = {} THEN NULL
    ELSE RoundDiv(Scale * (BaseScore * Cardinality(rows)
                    + UsefulnessWeight * SumScores(rows)),
                  Cardinality(rows))

\* SELECT 50.0 + (AVG(score) - 3) * 20 FROM trust_feedback WHERE suggestion_id = s
\* (NULL when no row matches), in hundredths
UsefulnessExpr(rows) ==
    IF rows = {} THEN NULL
    ELSE RoundDiv(Scale * (BaseScore * Cardinality(rows)
                    + UsefulnessWeight * (SumScores(rows) - NeutralScore * Cardinality(rows))),
                  Cardinality(rows))

PositiveCount(rows) == Cardinality({f \in rows : f.score >= PositiveThreshold})
NegativeCount(rows) == Cardinality({f \in rows : f.score <= NegativeThreshold})

\* mutant: verified responses are not counted
calculate_trust_score_no_verified(p_user_id, fb, acc, ver) ==
    LET accepted_responses ==
            Cardinality({p \in Posts : acc[p] \in {r \in Responses : ResponseAuthor(r) = p_user_id}})
        received == {f \in fb : f.farmer_id = p_user_id}
        total_feedback == Cardinality(received)
        avg_feedback_x5 ==
            IF total_feedback = 0 THEN 0
            ELSE RoundDiv(Scale * FeedbackWeight * SumScores(received), total_feedback)
    IN  Clamp(BaseScore * Scale + accepted_responses * AcceptedWeight * Scale + avg_feedback_x5)

\* mutant: AVG(score) used without COALESCE; with no feedback the sum is NULL
\* and LEAST(GREATEST(NULL, 0), 100) is 0
calculate_trust_score_no_coalesce(p_user_id, fb, acc, ver) ==
    LET accepted_responses ==
            Cardinality({p \in Posts : acc[p] \in {r \in Responses : ResponseAuthor(r) = p_user_id}})
        received == {f \in fb : f.farmer_id = p_user_id}
        total_feedback == Cardinality(received)
        verified_responses ==
            Cardinality({r \in Responses : ResponseAuthor(r) = p_user_id /\ ver[r]})
        final_score ==
            IF total_feedback = 0 THEN NULL
            ELSE BaseScore * Scale
                 + accepted_responses * AcceptedWeight * Scale
                 + RoundDiv(Scale * FeedbackWeight * SumScores(received), total_feedback)
                 + verified_responses * VerifiedWeight * Scale
    IN  Clamp(final_score)

\* mutant: the average is centred on the neutral score, (AVG(score) - 3) * 5,
\* so that feedback below neutral pulls the score under the base
calculate_trust_score_centred(p_user_id, fb, acc, ver) ==
    LET accepted_responses ==
            Cardinality({p \in Posts : acc[p] \in {r \in Responses : ResponseAuthor(r) = p_user_id}})
        received == {f \in fb : f.farmer_id = p_user_id}
        total_feedback == Cardinality(received)
        verified_responses ==
            Cardinality({r \in Responses : ResponseAuthor(r) = p_user_id /\ ver[r]})
        final_score ==
            IF total_feedback = 0
            THEN BaseScore * Scale
                 + accepted_responses * AcceptedWeight * Scale
                 + verified_responses * VerifiedWeight * Scale
            ELSE RoundDiv(Scale * (total_feedback * (BaseScore
                                        + accepted_responses * AcceptedWeight
                                        + verified_responses * VerifiedWeight)
                                   + FeedbackWeight * SumScores(received)
                                   - FeedbackWeight * NeutralScore * total_feedback),
                          total_feedback)
    IN  Clamp(final_score)

\* calculate_trust_score(p_user_id) evaluated on feedback rows fb, accepted
\* ids acc and verification flags ver; result in hundredths
calculate_trust_score(p_user_id, fb, acc, ver) ==
    LET accepted_responses ==
            Cardinality({p \in Posts : acc[p] \in {r \in Responses : ResponseAuthor(r) = p_user_id}})
        received == {f \in fb : f.farmer_id = p_user_id}
        total_feedback == Cardinality(received)
        avg_feedback_x5 ==
            IF total_feedback = 0 THEN 0
            ELSE RoundDiv(Scale * FeedbackWeight * SumScores(received), total_feedback)
        verified_responses ==
            Cardinality({r \in Responses : ResponseAuthor(r) = p_user_id /\ ver[r]})
        final_score == BaseScore * Scale
                       + accepted_responses * AcceptedWeight * Scale
                       + avg_feedback_x5
                       + verified_responses * VerifiedWeight * Scale
    IN  Clamp(final_score)

\* ------------------------------------------------------------------- Init
InitTables ==
    /\ trust_feedback = {}
    /\ suggestions = [s \in Suggestions |->
                        [usefulness_score |-> BaseScore * Scale,
                         positive_feedback_count |-> 0,
                         negative_feedback_count |-> 0]]
    /\ trust_score = [u \in Users |-> BaseScore * Scale]
    /\ is_verified = [r \in Responses |-> FALSE]
    /\ accepted_response_id = [p \in Posts |-> NULL]
    /\ pc = [t \in Txns |-> "idle"]
    /\ v_usefulness = [t \in Txns |-> NULL]
    /\ counts = [t \in Txns |-> <<0, 0>>]
    /\ response = "none"
    /\ is_resolved = [p \in Posts |-> FALSE]
    /\ view_count = [p \in Posts |-> 0]
    /\ response_count = [p \in Posts |-> 1]
    /\ post_responses = {[id |-> r, post_id |-> ResponsePost(r), xmin |-> 0, xmax |-> 0] :
                            r \in Responses}
    /\ rtx = [t \in Txns |-> NoStatement]
    /\ ranking = NoRanking
    /\ dash = NoDashboard
    /\ popup = [s \in Suggestions |-> NoPopup]
    /\ toast = "none"
    /\ notifications = {}
    /\ browser = NoBrowser

\* every suggestion is about the first disease, nothing in the feed
Init == InitTables /\ disease_name = [s \in Suggestions |-> 1] /\ feed = <<>>

\* suggestions about any of the diseases
InitCatalog == InitTables /\ disease_name \in [Suggestions -> Diseases] /\ feed = <<>>

\* a feed of two common scans
InitShortFeed ==
    /\ InitTables
    /\ disease_name = [s \in Suggestions |-> 1]
    /\ feed = FeedOf(2, {}, <<>>)

\* any feed of at most MaxScans scans of which at most MaxRare are not
\* the common kind
InitFeed ==
    /\ InitTables
    /\ disease_name = [s \in Suggestions |-> 1]
    /\ feed \in Feeds

\* ---------------------------------------------------------------- actions
\* mutant: the upper half of the CHECK constraint left out
ValidScoreLowerOnly(score) == score >= MinScore

ValidScore(score) == score >= MinScore /\ score <= MaxScore

\* mutant: uniqueness looked up among the committed rows only (a
\* check-then-insert in place of the index)
SameKeyCommittedOnly(rater, s) ==
    {f \in trust_feedback : f.user_id = rater /\ f.suggestion_id = s /\ f.xid = 0}

\* idx_trust_feedback_unique: a row with the same key, committed or not
SameKey(rater, s) == {f \in trust_feedback : f.user_id = rater /\ f.suggestion_id = s}

db_unchanged ==
    /\ UNCHANGED <<trust_feedback, suggestions, trust_score, is_verified,
                   accepted_response_id, pc, v_usefulness, counts>>
    /\ engine_frame

\* INSERT rejected by CHECK (score >= 1 AND score <= 5)
RejectInvalidScore(t, rater, s, score) ==
    /\ pc[t] = "idle"
    /\ ~ValidScore(score)
    /\ response' = "InvalidScore"
    /\ db_unchanged

\* mutant: the duplicate is merged into the stored row (ON CONFLICT DO UPDATE)
RejectDuplicateMerge(t, rater, s, score) ==
    /\ pc[t] = "idle"
    /\ ValidScore(score)
    /\ Committed(SameKey(rater, s)) # {}
    /\ trust_feedback' = {IF f \in Committed(SameKey(rater, s))
                            THEN [f EXCEPT !.score = score] ELSE f : f \in trust_feedback}
    /\ response' = "DuplicateFeedback"
    /\ UNCHANGED <<suggestions, trust_score, is_verified, accepted_response_id,
                   pc, v_usefulness, counts>>
    /\ engine_frame

\* INSERT rejected by the unique index on (user_id, suggestion_id)
RejectDuplicate(t, rater, s, score) ==
    /\ pc[t] = "idle"
    /\ ValidScore(score)
    /\ Committed(SameKey(rater, s)) # {}
    /\ response' = "DuplicateFeedback"
    /\ db_unchanged

\* INSERT rejected by suggestion_id REFERENCES suggestions(id)
RejectSuggestionNotFound(t, rater, s, score) ==
    /\ pc[t] = "idle"
    /\ ValidScore(score)
    /\ SameKey(rater, s) = {}
    /\ s \notin Suggestions
    /\ response' = "SuggestionNotFound"
    /\ db_unchanged

\* mutant: the rated user is taken to be the first user, whoever wrote the
\* suggestion
FarmerOfFirstUser(s) == 1

\* trust_feedback.farmer_id ("whose suggestion"): the request names the
\* suggestion and no user; the row carries the suggestion's author
FarmerOf(s) == SuggestionAuthor(s)

\* the row is inserted; a session whose key is held by an uncommitted row of
\* another session waits for that session (the action is not enabled)
InsertFeedback(t, rater, s, score, cap) ==
    /\ pc[t] = "idle"
    /\ ValidScore(score)
    /\ SameKey(rater, s) = {}
    /\ s \in Suggestions
    /\ Cardinality(trust_feedback) < cap
    /\ trust_feedback' = trust_feedback \cup
            {[user_id |-> rater, suggestion_id |-> s,
              farmer_id |-> FarmerOf(s), score |-> score, xid |-> t]}
    /\ pc' = [pc EXCEPT ![t] = "inserted"]
    /\ response' = "none"
    /\ UNCHANGED <<suggestions, trust_score, is_verified, accepted_response_id,
                   v_usefulness, counts>>
    /\ engine_frame

\* trigger, first statement: SELECT ... INTO v_usefulness
ReadAggregate(t) ==
    /\ pc[t] = "inserted"
    /\ v_usefulness' = [v_usefulness EXCEPT ![t] =
            UsefulnessExpr({f \in Visible(t) : f.suggestion_id = NewRow(t).suggestion_id})]
    /\ pc' = [pc EXCEPT ![t] = "read"]
    /\ response' = "none"
    /\ UNCHANGED <<trust_feedback, suggestions, trust_score, is_verified,
                   accepted_response_id, counts>>
    /\ engine_frame

\* trigger, second statement starts: the UPDATE takes its snapshot and
\* evaluates the two COUNT(*) sub-selects on it
UpdateBegin(t) ==
    /\ pc[t] = "read"
    /\ LET mine == {f \in Visible(t) : f.suggestion_id = NewRow(t).suggestion_id}
       IN  counts' = [counts EXCEPT ![t] = <<PositiveCount(mine), NegativeCount(mine)>>]
    /\ pc' = [pc EXCEPT ![t] = "updating"]
    /\ response' = "none"
    /\ UNCHANGED <<trust_feedback, suggestions, trust_score, is_verified,
                   accepted_response_id, v_usefulness>>
    /\ engine_frame

\* mutant: the row lock is taken with the INSERT and not with the UPDATE, so
\* two sessions that inserted for one suggestion wait for each other
RowLockedFromInsert(t, s) ==
    \E o \in Txns : o # t /\ pc[o] # "idle" /\ NewRow(o).suggestion_id = s

\* the UPDATE locks the suggestions row and writes its new version; it waits
\* while another session holds an uncommitted version of the same row
RowLocked(t, s) ==
    \E o \in Txns : o # t /\ pc[o] = "written" /\ NewRow(o).suggestion_id = s

UpdateEnd(t) ==
    /\ pc[t] = "updating"
    /\ ~RowLocked(t, NewRow(t).suggestion_id)
    /\ pc' = [pc EXCEPT ![t] = "written"]
    /\ response' = "none"
    /\ UNCHANGED <<trust_feedback, suggestions, trust_score, is_verified,
                   accepted_response_id, v_usefulness, counts>>
    /\ engine_frame

\* users.trust_score of user u recomputed from the state (fb, acc, ver)
RecomputeTrust(u, fb, acc, ver) ==
    [trust_score EXCEPT ![u] = calculate_trust_score(u, fb, acc, ver)]

\* mutant: the trigger's UPDATE without WHERE id = NEW.suggestion_id
CommitNoWhere(t) ==
    /\ pc[t] = "written"
    /\ LET new == NewRow(t)
           fb == (trust_feedback \ {new}) \cup {[new EXCEPT !.xid = 0]}
       IN  /\ trust_feedback' = fb
           /\ suggestions' = [s \in Suggestions |->
                    [usefulness_score |-> Clamp(v_usefulness[t]),
                     positive_feedback_count |-> counts[t][1],
                     negative_feedback_count |-> counts[t][2]]]
           /\ trust_score' = RecomputeTrust(new.farmer_id, Committed(fb),
                                            accepted_response_id, is_verified)
    /\ pc' = [pc EXCEPT ![t] = "idle"]
    /\ v_usefulness' = [v_usefulness EXCEPT ![t] = NULL]
    /\ counts' = [counts EXCEPT ![t] = <<0, 0>>]
    /\ response' = "UpdatedScores"
    /\ UNCHANGED <<is_verified, accepted_response_id>>
    /\ engine_frame

\* the statement completes: the new row and the new suggestions version
\* become visible together, the target user's trust score is recomputed
Commit(t) ==
    /\ pc[t] = "written"
    /\ LET new == NewRow(t)
           fb == (trust_feedback \ {new}) \cup {[new EXCEPT !.xid = 0]}
       IN  /\ trust_feedback' = fb
           /\ suggestions' = [suggestions EXCEPT ![new.suggestion_id] =
                    [usefulness_score |-> Clamp(v_usefulness[t]),
                     positive_feedback_count |-> counts[t][1],
                     negative_feedback_count |-> counts[t][2]]]
           /\ trust_score' = RecomputeTrust(new.farmer_id, Committed(fb),
                                            accepted_response_id, is_verified)
    /\ pc' = [pc EXCEPT ![t] = "idle"]
    /\ v_usefulness' = [v_usefulness EXCEPT ![t] = NULL]
    /\ counts' = [counts EXCEPT ![t] = <<0, 0>>]
    /\ response' = "UpdatedScores"
    /\ UNCHANGED <<is_verified, accepted_response_id>>
    /\ engine_frame

\* mutant: the failure leaves the usefulness value it had already written in
\* place, the two counts and the trust score at their old values
RecomputeFailsKeepWrite(t) ==
    /\ pc[t] = "written"
    /\ trust_feedback' = trust_feedback \ {NewRow(t)}
    /\ suggestions' = [suggestions EXCEPT ![NewRow(t).suggestion_id].usefulness_score =
                            Clamp(v_usefulness[t])]
    /\ pc' = [pc EXCEPT ![t] = "idle"]
    /\ v_usefulness' = [v_usefulness EXCEPT ![t] = NULL]
    /\ counts' = [counts EXCEPT ![t] = <<0, 0>>]
    /\ response' = "RecomputeFailed"
    /\ UNCHANGED <<trust_score, is_verified, accepted_response_id>>
    /\ engine_frame

\* an error raised inside the trigger aborts the INSERT statement: the new
\* row and the uncommitted suggestions version are discarded together
RecomputeFails(t) ==
    /\ pc[t] \in {"inserted", "read", "updating", "written"}
    /\ trust_feedback' = trust_feedback \ {NewRow(t)}
    /\ pc' = [pc EXCEPT ![t] = "idle"]
    /\ v_usefulness' = [v_usefulness EXCEPT ![t] = NULL]
    /\ counts' = [counts EXCEPT ![t] = <<0, 0>>]
    /\ response' = "RecomputeFailed"
    /\ UNCHANGED <<suggestions, trust_score, is_verified, accepted_response_id>>
    /\ engine_frame

\* POST /api/community/posts/:postId/resolve: the post owner accepts
\* response r of post p, which marks the post resolved
MarkAccepted(p, r) ==
    /\ ResponsePost(r) = p
    /\ accepted_response_id[p] # r
    /\ accepted_response_id' = [accepted_response_id EXCEPT ![p] = r]
    /\ trust_score' = RecomputeTrust(ResponseAuthor(r), Committed(trust_feedback),
                                     accepted_response_id', is_verified)
    /\ is_resolved' = [is_resolved EXCEPT ![p] = TRUE]
    /\ response' = "none"
    /\ ranking' = NoRanking
    /\ UNCHANGED <<trust_feedback, suggestions, is_verified, pc, v_usefulness, counts,
                   disease_name, view_count, response_count, post_responses, rtx,
                   ui_vars>>

\* the verification collaborator flags response r
MarkVerified(r) ==
    /\ ~is_verified[r]
    /\ is_verified' = [is_verified EXCEPT ![r] = TRUE]
    /\ trust_score' = RecomputeTrust(ResponseAuthor(r), Committed(trust_feedback),
                                     accepted_response_id, is_verified')
    /\ response' = "none"
    /\ UNCHANGED <<trust_feedback, suggestions, accepted_response_id, pc,
                   v_usefulness, counts>>
    /\ engine_frame

\* ------------------------------------------------------------ ranked views
\* a >= b in the lexicographic order of two equally long tuples of numbers
LexGeq(a, b) ==
    \/ a = b
    \/ \E i \in 1..Len(a) : a[i] > b[i] /\ \A j \in 1..(i - 1) : a[j] = b[j]

\* the sequences that list every element of rows once
Perms(rows) ==
    {q \in [1..Cardinality(rows) -> rows] : \A i, j \in 1..Cardinality(rows) : i # j => q[i] # q[j]}

\* LIMIT n OFFSET off
Limit(q, n, off) ==
    IF off >= Len(q) THEN <<>>
    ELSE SubSeq(q, off + 1, IF off + n <= Len(q) THEN off + n ELSE Len(q))

\* mutant: ORDER BY usefulness_score DESC only
SuggestionOrderKeyUsefulnessOnly(s) == <<suggestions[s].usefulness_score>>

\* ORDER BY s.usefulness_score DESC, s.positive_feedback_count DESC, u.trust_score DESC
SuggestionOrderKey(s) ==
    <<suggestions[s].usefulness_score, suggestions[s].positive_feedback_count,
      trust_score[SuggestionAuthor(s)]>>

\* Get Suggestions for Disease: every row order the ORDER BY clause allows
\* (rows equal in all three columns come in any order), cut by the LIMIT
RankSuggestionsResults(d) ==
    LET matching == {s \in Suggestions : disease_name[s] = d}
    IN  {Limit(q, SuggestionLimit, 0) :
            q \in {o \in Perms(matching) :
                     \A i \in 1..(Len(o) - 1) :
                        LexGeq(SuggestionOrderKey(o[i]), SuggestionOrderKey(o[i + 1]))}}

\* a ranked view is a read-only query
view_frame ==
    /\ response' = "none"
    /\ UNCHANGED <<feedback_vars, disease_name, post_vars, ui_vars>>

RankSuggestions(d) ==
    /\ \E q \in RankSuggestionsResults(d) :
          ranking' = [kind |-> "rankSuggestions", arg |-> <<d>>, rows |-> q]
    /\ view_frame

\* COUNT(DISTINCT cp.accepted_response_id) over the user's responses
AcceptedCount(u) ==
    Cardinality({r \in Responses :
                    ResponseAuthor(r) = u /\ \E p \in Posts : accepted_response_id[p] = r})

\* mutant: ORDER BY u.trust_score DESC only
ContributorOrderKeyTrustOnly(u) == <<trust_score[u]>>

\* ORDER BY u.trust_score DESC, accepted_count DESC
ContributorOrderKey(u) == <<trust_score[u], AcceptedCount(u)>>

\* Get Top Community Contributors
RankContributorsResults ==
    LET farmers == {u \in Users : UserRole(u) = "farmer"}
    IN  {Limit(q, ContributorLimit, 0) :
            q \in {o \in Perms(farmers) :
                     \A i \in 1..(Len(o) - 1) :
                        LexGeq(ContributorOrderKey(o[i]), ContributorOrderKey(o[i + 1]))}}

RankContributors ==
    /\ \E q \in RankContributorsResults :
          ranking' = [kind |-> "rankContributors", arg |-> <<>>, rows |-> q]
    /\ view_frame

\* WHERE ($1 IS NULL OR is_resolved = $1) AND ($2 IS NULL OR crop_name ILIKE
\* '%' || $2 || '%') AND ($3 IS NULL OR tags && $3)
\* $1 is "NULL", "true" or "false"; $2 is NULL or a crop name; $3 is <<>> for
\* NULL or <<T>> for the array T
PostMatches(p, resolved, crop, tags) ==
    /\ resolved = "NULL" \/ is_resolved[p] = (resolved = "true")
    /\ crop = NULL \/ PostCrop(p) = crop
    /\ tags = <<>> \/ PostTags(p) \cap tags[1] # {}

\* ORDER BY CASE WHEN $4 = 'popular' THEN response_count END DESC,
\*          CASE WHEN $4 = 'trending' THEN view_count END DESC, created_at DESC
\* (a CASE without a matching branch is NULL for every row: the same value)
PostOrderKey(p, sort) ==
    <<IF sort = "popular" THEN response_count[p] ELSE 0,
      IF sort = "trending" THEN view_count[p] ELSE 0,
      PostCreatedAt(p)>>

\* Get Community Posts with Filters ... LIMIT $5 OFFSET $6
RankPostsResults(resolved, crop, tags, sort, limit, offset) ==
    LET matching == {p \in Posts : PostMatches(p, resolved, crop, tags)}
    IN  {Limit(q, limit, offset) :
            q \in {o \in Perms(matching) :
                     \A i \in 1..(Len(o) - 1) :
                        LexGeq(PostOrderKey(o[i], sort), PostOrderKey(o[i + 1], sort))}}

RankPosts(resolved, crop, tags, sort, limit, offset) ==
    /\ \E q \in RankPostsResults(resolved, crop, tags, sort, limit, offset) :
          ranking' = [kind |-> "rankPosts", arg |-> <<sort>>, rows |-> q]
    /\ view_frame

\* ------------------------------------------------- response-count trigger
\* post_responses rows a new statement sees: committed, and not deleted by a
\* committed statement (those are removed from the set)
ResponseIds == {r.id : r \in post_responses}
\* another session holds an uncommitted version of community_posts row p
PostRowLocked(t, p) ==
    \E o \in Txns : o # t /\ rtx[o].pc = "counted" /\ rtx[o].post = p

post_frame ==
    /\ response' = "none"
    /\ ranking' = NoRanking
    /\ UNCHANGED <<feedback_vars, disease_name, is_resolved, view_count, ui_vars>>

\* INSERT INTO post_responses (post_id, ...) with a fresh id
InsertResponse(t, p) ==
    /\ rtx[t].pc = "idle"
    /\ \E id \in NewResponses \ ResponseIds :
          /\ post_responses' = post_responses \cup
                {[id |-> id, post_id |-> p, xmin |-> t, xmax |-> 0]}
          /\ rtx' = [rtx EXCEPT ![t] = [pc |-> "fired", row |-> id, post |-> p,
                                        delta |-> 1, seen |-> response_count[p], written |-> 0]]
    /\ UNCHANGED response_count
    /\ post_frame

\* DELETE FROM post_responses WHERE id = r: the row is locked; a session that
\* finds the row being deleted by another waits for it
DeleteResponse(t, r) ==
    /\ rtx[t].pc = "idle"
    /\ \E row \in post_responses :
          /\ row.id = r /\ row.xmin = 0 /\ row.xmax = 0
          /\ post_responses' = (post_responses \ {row}) \cup {[row EXCEPT !.xmax = t]}
          /\ rtx' = [rtx EXCEPT ![t] = [pc |-> "fired", row |-> r, post |-> row.post_id,
                                        delta |-> 0 - 1,
                                        seen |-> response_count[row.post_id],
                                        written |-> 0]]
    /\ UNCHANGED response_count
    /\ post_frame

\* DELETE of an id no row has: no row is deleted and no trigger fires
DeleteMissing(t, r) ==
    /\ rtx[t].pc = "idle"
    /\ r \notin ResponseIds
    /\ UNCHANGED <<response_count, post_responses, rtx>>
    /\ post_frame

\* mutant: the new count is computed from the value the statement saw when it
\* started
NewCountFromSnapshot(t) == rtx[t].seen + rtx[t].delta

\* SET response_count = response_count + 1 (or - 1), evaluated on the row
\* version the UPDATE has locked, which is the latest committed one
NewCount(t) == response_count[rtx[t].post] + rtx[t].delta

\* update_post_response_count: the UPDATE locks the community_posts row; it
\* waits while another session holds an uncommitted version of it
UpdateResponseCount(t) ==
    /\ rtx[t].pc = "fired"
    /\ ~PostRowLocked(t, rtx[t].post)
    /\ rtx' = [rtx EXCEPT ![t].pc = "counted", ![t].written = NewCount(t)]
    /\ UNCHANGED <<response_count, post_responses>>
    /\ post_frame

\* the statement commits: its row change and the new count become visible
CommitResponse(t) ==
    /\ rtx[t].pc = "counted"
    /\ post_responses' =
          {IF r.xmin = t THEN [r EXCEPT !.xmin = 0] ELSE r :
              r \in {x \in post_responses : x.xmax # t}}
    /\ response_count' = [response_count EXCEPT ![rtx[t].post] = rtx[t].written]
    /\ rtx' = [rtx EXCEPT ![t] = NoStatement]
    /\ post_frame

\* POST /community/posts/:postId/view
ViewPost(p) ==
    /\ view_count[p] < MaxViews
    /\ view_count' = [view_count EXCEPT ![p] = view_count[p] + 1]
    /\ response' = "none"
    /\ ranking' = NoRanking
    /\ UNCHANGED <<feedback_vars, disease_name, is_resolved, response_count,
                   post_responses, rtx, ui_vars>>

\* one step of a statement of session t on post_responses
ResponseStep(t) ==
    \/ \E p \in Posts : InsertResponse(t, p)
    \/ \E r \in Responses \cup NewResponses : DeleteResponse(t, r)
    \/ \E r \in Responses \cup NewResponses : DeleteMissing(t, r)
    \/ UpdateResponseCount(t)
    \/ CommitResponse(t)

\* ------------------------------------------------------ community dashboard
\* what a step of the user interface leaves alone
ui_frame ==
    /\ response' = "none"
    /\ ranking' = NoRanking
    /\ UNCHANGED <<feedback_vars, disease_name, post_vars, notifications, browser>>

\* GET /scans/community/feed?skip=..&limit=..: one page of the feed
FeedPage(skip, limit) == Limit(feed, limit, skip)

\* the scans of a page as the cards want them
TransformedPosts(scans) ==
    [i \in 1..Len(scans) |->
        [scanId |-> scans[i].id,
         crop_name |-> scans[i].crop_name,
         isResolved |-> scans[i].comments_count >= ResolvedThreshold]]

\* loadCommunityScans up to its await: on mount, on a language change and
\* after a response was added. Raising the loading flag unmounts the tabs,
\* which come back on their default.
LoadCommunityScans ==
    /\ Cardinality(dash.pending) < MaxPending
    /\ dash.started < MaxLoads
    /\ dash' = [dash EXCEPT
            !.isLoading = TRUE,
            !.tab = "all",
            !.started = @ + 1,
            !.pending = @ \cup {[id |-> dash.started + 1,
                                 language |-> dash.currentLanguage]}]
    /\ UNCHANGED <<feed, popup, toast>>
    /\ ui_frame

\* the language context hands the dashboard another currentLanguage: the
\* effect on [currentLanguage] runs loadCommunityScans with it
LanguageChanged(code) ==
    /\ code # dash.currentLanguage
    /\ Cardinality(dash.pending) < MaxPending
    /\ dash.started < MaxLoads
    /\ dash' = [dash EXCEPT
            !.currentLanguage = code,
            !.isLoading = TRUE,
            !.tab = "all",
            !.started = @ + 1,
            !.pending = @ \cup {[id |-> dash.started + 1, language |-> code]}]
    /\ UNCHANGED <<feed, popup, toast>>
    /\ ui_frame

\* request req comes back with success and scans
ScansLoaded(req) ==
    /\ req \in dash.pending
    /\ dash' = [dash EXCEPT !.posts = TransformedPosts(FeedPage(PageSkip, PageLimit)),
                            !.shown = req,
                            !.newestLoaded = IF req.id > @ THEN req.id ELSE @,
                            !.isLoading = FALSE,
                            !.pending = @ \ {req}]
    /\ UNCHANGED <<feed, popup, toast>>
    /\ ui_frame

\* request req comes back without success: the posts stay as they were
ScansNotLoaded(req) ==
    /\ req \in dash.pending
    /\ dash' = [dash EXCEPT !.isLoading = FALSE, !.pending = @ \ {req}]
    /\ UNCHANGED <<feed, popup, toast>>
    /\ ui_frame

\* request req throws
ScansFailed(req) ==
    /\ req \in dash.pending
    /\ dash' = [dash EXCEPT !.isLoading = FALSE, !.pending = @ \ {req}]
    /\ toast' = "Failed to load community posts"
    /\ UNCHANGED <<feed, popup>>
    /\ ui_frame

SetSearchQuery(q) ==
    /\ dash.searchQuery # q
    /\ dash' = [dash EXCEPT !.searchQuery = q]
    /\ UNCHANGED <<feed, popup, toast>>
    /\ ui_frame

\* the tabs are on screen only once posts are
SelectTab(tab) ==
    /\ ~dash.isLoading
    /\ dash.posts # <<>>
    /\ dash.tab # tab
    /\ dash' = [dash EXCEPT !.tab = tab]
    /\ UNCHANGED <<feed, popup, toast>>
    /\ ui_frame

HandleNewPost ==
    /\ toast' = "Feature Coming Soon"
    /\ UNCHANGED <<feed, dash, popup>>
    /\ ui_frame

\* the search box against title, description and tags; a query names a crop
MatchesSearch(cropName, q) == q = EmptyQuery \/ cropName = q

InTab(isResolved, tab) ==
    \/ tab = "all"
    \/ tab = "unresolved" /\ ~isResolved
    \/ tab = "resolved" /\ isResolved

filteredPosts ==
    SelectSeq(dash.posts, LAMBDA post : MatchesSearch(post.crop_name, dash.searchQuery))

\* the ids of the cards on screen, top to bottom
ShownPosts ==
    IF dash.isLoading \/ dash.posts = <<>> THEN <<>>
    ELSE LET cards == SelectSeq(filteredPosts, LAMBDA post : InTab(post.isResolved, dash.tab))
         IN  [i \in 1..Len(cards) |-> cards[i].scanId]

DashboardStep ==
    \/ LoadCommunityScans
    \/ \E req \in dash.pending : ScansLoaded(req)
    \/ \E req \in dash.pending : ScansNotLoaded(req)
    \/ \E req \in dash.pending : ScansFailed(req)
    \/ \E q \in SearchInputs : SetSearchQuery(q)
    \/ \E tab \in TabInputs : SelectTab(tab)
    \/ HandleNewPost

\* ----------------------------------------------------------- solution page
\* what a step of one of the other components leaves alone
browser_frame ==
    /\ response' = "none"
    /\ ranking' = NoRanking
    /\ UNCHANGED <<feedback_vars, disease_name, post_vars, feed, dash, popup>>

\* the parent shows or hides the dialog (open prop, onClose)
SetSolutionPageOpen(open) ==
    /\ browser.solution.open # open
    /\ browser' = [browser EXCEPT !.solution.open = open]
    /\ UNCHANGED <<toast, notifications>>
    /\ browser_frame

\* setExpandedSuggestion(id) and setExpandedSuggestion(null)
SetExpandedSuggestion(x) ==
    /\ browser.solution.open
    /\ browser.solution.expandedSuggestion # x
    /\ browser' = [browser EXCEPT !.solution.expandedSuggestion = x]
    /\ UNCHANGED <<toast, notifications>>
    /\ browser_frame

\* "Tried This": the button of the marked suggestion is disabled. The handler
\* sets the mark and shows the toast; it sends no request.
handleTriedThis(suggestionId) ==
    /\ browser.solution.open
    /\ browser.solution.selectedSuggestion # suggestionId
    /\ browser' = [browser EXCEPT !.solution.selectedSuggestion = suggestionId]
    /\ toast' = "Solution marked as tried"
    /\ UNCHANGED notifications
    /\ browser_frame

SolutionStep ==
    \/ \E open \in BOOLEAN : SetSolutionPageOpen(open)
    \/ \E x \in Suggestions \cup {NULL} : SetExpandedSuggestion(x)
    \/ \E s \in Suggestions : handleTriedThis(s)

\* -------------------------------------------------------------- index page
\* loadScanData up to its await: with a scanId in the URL the scan is asked
\* for by id, else the user's latest scan; one request at a time
loadScanData(request) ==
    /\ browser.index.request = "none"
    /\ browser' = [browser EXCEPT !.index.isLoading = TRUE, !.index.request = request]
    /\ UNCHANGED <<toast, notifications>>
    /\ browser_frame

\* the response carries a scan
ScanDataLoaded(data) ==
    /\ browser.index.request # "none"
    /\ browser' = [browser EXCEPT
            !.index.diseaseData =
                [loaded |-> TRUE,
                 isCommon |-> JsOr(data.isCommon, "true"),
                 communityAdvice |-> IF browser.index.request = "byId"
                                       THEN data.communityAdvice ELSE 0],
            !.index.received = data,
            !.index.isLoading = FALSE,
            !.index.request = "none"]
    /\ UNCHANGED <<toast, notifications>>
    /\ browser_frame

\* the response carries no scan: by id nothing is set, for the latest scan
\* the mock data is
ScanDataMissing ==
    /\ browser.index.request # "none"
    /\ browser' = [browser EXCEPT
            !.index.diseaseData = IF browser.index.request = "byId" THEN @ ELSE mockDiseaseData,
            !.index.received = IF browser.index.request = "byId" THEN @ ELSE NoScanData,
            !.index.isLoading = FALSE,
            !.index.request = "none"]
    /\ UNCHANGED <<toast, notifications>>
    /\ browser_frame

\* the request throws
ScanDataFailed ==
    /\ browser.index.request # "none"
    /\ browser' = [browser EXCEPT !.index.diseaseData = mockDiseaseData,
                                  !.index.received = NoScanData,
                                  !.index.isLoading = FALSE,
                                  !.index.request = "none"]
    /\ toast' = "Failed to load scan data"
    /\ UNCHANGED notifications
    /\ browser_frame

\* <DiseaseDetectionResult {...(diseaseData || mockDiseaseData)} />
ShownDiseaseData ==
    IF browser.index.diseaseData.loaded THEN browser.index.diseaseData ELSE mockDiseaseData

ShowsCommunityAdvice ==
    /\ ~browser.index.isLoading
    /\ ShownDiseaseData.isCommon = "true"
    /\ ShownDiseaseData.communityAdvice > 0

ShowsRarePrompt ==
    /\ ~browser.index.isLoading
    /\ ShownDiseaseData.isCommon # "true"

IndexStep ==
    \/ \E request \in {"byId", "latest"} : loadScanData(request)
    \/ \E data \in ScanData : ScanDataLoaded(data)
    \/ ScanDataMissing
    \/ ScanDataFailed

\* -------------------------------------------------------- language context
\* setLanguage(code) in a tab: the state hook and localStorage are set; the
\* browser queues a storage event for every other tab when the stored value
\* changes
setLanguage(tab, code) ==
    /\ \A o \in BrowserTabs : Len(browser.language.storageEvents[o]) < MaxStorageEvents
    /\ browser' = [browser EXCEPT
            !.language.currentLanguage[tab] = code,
            !.language.preferredLanguage = code,
            !.language.storageEvents =
                [o \in BrowserTabs |->
                    IF o # tab /\ browser.language.preferredLanguage # code
                    THEN Append(@[o], code) ELSE @[o]]]
    /\ UNCHANGED <<toast, notifications>>
    /\ browser_frame

\* handleStorageChange in a tab, on the oldest event waiting: e.newValue
\* becomes the current language
handleStorageChange(tab) ==
    /\ browser.language.storageEvents[tab] # <<>>
    /\ browser' = [browser EXCEPT
            !.language.currentLanguage[tab] = Head(browser.language.storageEvents[tab]),
            !.language.storageEvents[tab] = Tail(@)]
    /\ UNCHANGED <<toast, notifications>>
    /\ browser_frame

LanguageStep ==
    \/ \E tab \in BrowserTabs, code \in Languages : setLanguage(tab, code)
    \/ \E tab \in BrowserTabs : handleStorageChange(tab)

\* ----------------------------------------------------------- question card
\* setShowAnswers(!showAnswers): the answer cards are rendered only while
\* showAnswers holds, so hiding unmounts them and showing mounts new ones
ToggleShowAnswers ==
    /\ browser' = [browser EXCEPT
            !.question.showAnswers = ~@,
            !.question.cards = [a \in Answers |-> NoAnswerCard(a)]]
    /\ UNCHANGED <<toast, notifications>>
    /\ browser_frame

\* handleHelpful on the card of answer a; the button is disabled once voted
handleHelpful(a) ==
    /\ browser.question.showAnswers
    /\ ~browser.question.cards[a].hasVoted
    /\ browser' = [browser EXCEPT
            !.question.cards[a].helpfulCount = @ + 1,
            !.question.cards[a].hasVoted = TRUE,
            !.question.clicked = @ \cup {a}]
    /\ UNCHANGED <<toast, notifications>>
    /\ browser_frame

\* the "Verified by AI" button of a verified answer, and the modal's onClose
SetShowVerification(a, show) ==
    /\ browser.question.showAnswers
    /\ AnswerVerified(a)
    /\ browser.question.cards[a].showVerification # show
    /\ browser' = [browser EXCEPT !.question.cards[a].showVerification = show]
    /\ UNCHANGED <<toast, notifications>>
    /\ browser_frame

QuestionStep ==
    \/ ToggleShowAnswers
    \/ \E a \in Answers : handleHelpful(a)
    \/ \E a \in Answers, show \in BOOLEAN : SetShowVerification(a, show)

\* ------------------------------------------------------------- voice input
\* handleVoiceRecord while isRecording holds: the flag is lowered and the
\* current recorder, unless inactive, is told to stop
StopRecording ==
    /\ ~browser.voice.isTranscribing
    /\ browser.voice.isRecording
    /\ LET r == browser.voice.mediaRecorderRef
           active == r # NULL /\ browser.voice.recorder[r] = "recording"
       IN  /\ browser' = [browser EXCEPT
                    !.voice.isRecording = FALSE,
                    !.voice.recorder = IF active THEN [@ EXCEPT ![r] = "stopping"] ELSE @]
           /\ toast' = IF active THEN "Recording stopped" ELSE toast
    /\ UNCHANGED notifications
    /\ browser_frame

\* handleVoiceRecord while isRecording does not hold, up to its await
StartRecording ==
    /\ ~browser.voice.isTranscribing
    /\ ~browser.voice.isRecording
    /\ browser.voice.starting < MaxStarting
    /\ \E r \in Recorders : browser.voice.recorder[r] = "none"
    /\ browser' = [browser EXCEPT !.voice.starting = @ + 1]
    /\ UNCHANGED <<toast, notifications>>
    /\ browser_frame

\* getUserMedia resolves: the chunk list is emptied, a new recorder is
\* created, referenced and started
MicrophoneGranted ==
    /\ browser.voice.starting > 0
    /\ \E r \in Recorders :
          /\ browser.voice.recorder[r] = "none"
          /\ \A o \in Recorders : o < r => browser.voice.recorder[o] # "none"
          /\ browser' = [browser EXCEPT
                    !.voice.audioChunksRef = <<>>,
                    !.voice.mediaRecorderRef = r,
                    !.voice.recorder[r] = "recording",
                    !.voice.isRecording = TRUE,
                    !.voice.starting = @ - 1]
    /\ toast' = "Recording started"
    /\ UNCHANGED notifications
    /\ browser_frame

\* getUserMedia rejects
MicrophoneDenied ==
    /\ browser.voice.starting > 0
    /\ browser' = [browser EXCEPT !.voice.starting = @ - 1]
    /\ toast' = "Microphone access denied"
    /\ UNCHANGED notifications
    /\ browser_frame

\* the task queued by stop() on recorder r: ondataavailable pushes the
\* recorded data, if any, on the chunk list, then onstop builds the blob
\* from the list and sends it for transcription
RecorderStopped(r, hasData) ==
    /\ browser.voice.recorder[r] = "stopping"
    /\ LET chunks == IF hasData THEN Append(browser.voice.audioChunksRef, r)
                     ELSE browser.voice.audioChunksRef
       IN  browser' = [browser EXCEPT
                !.voice.audioChunksRef = chunks,
                !.voice.recorder[r] = "stopped",
                !.voice.isTranscribing = TRUE,
                !.voice.transcribing = @ + 1,
                !.voice.requests = Append(@, [recorder |-> r, blob |-> chunks])]
    /\ UNCHANGED <<toast, notifications>>
    /\ browser_frame

\* transcribeAudio resolves with text, or fails
TranscriptionSettles(ok) ==
    /\ browser.voice.transcribing > 0
    /\ browser' = [browser EXCEPT !.voice.isTranscribing = FALSE,
                                  !.voice.transcribing = @ - 1]
    /\ toast' = IF ok THEN "Voice transcribed!" ELSE "Transcription failed"
    /\ UNCHANGED notifications
    /\ browser_frame

VoiceStep ==
    \/ StopRecording
    \/ StartRecording
    \/ MicrophoneGranted
    \/ MicrophoneDenied
    \/ \E r \in Recorders, hasData \in BOOLEAN : RecorderStopped(r, hasData)
    \/ \E ok \in BOOLEAN : TranscriptionSettles(ok)

\* ------------------------------------------------------- trust score popup
\* the parent opens the popup of suggestion s
OpenPopup(s) ==
    /\ ~popup[s].open
    /\ popup' = [popup EXCEPT ![s].open = TRUE]
    /\ UNCHANGED <<feed, dash, toast>>
    /\ ui_frame

\* onOpenChange: the dialog is dismissed
ClosePopup(s) ==
    /\ popup[s].open
    /\ popup' = [popup EXCEPT ![s].open = FALSE]
    /\ UNCHANGED <<feed, dash, toast>>
    /\ ui_frame

SetScore(s, star) ==
    /\ popup[s].open
    /\ popup[s].score # star
    /\ popup' = [popup EXCEPT ![s].score = star]
    /\ UNCHANGED <<feed, dash, toast>>
    /\ ui_frame

\* handleSubmit up to its await; the button is disabled while submitting
HandleSubmit(s) ==
    /\ popup[s].open
    /\ ~popup[s].isSubmitting
    /\ popup' = [popup EXCEPT ![s].isSubmitting = TRUE, ![s].call = "pending"]
    /\ UNCHANGED <<feed, dash, toast>>
    /\ ui_frame

\* the toast of the try block and the toast of the catch block
SubmitToast(outcome) ==
    IF outcome = "resolved" THEN "Feedback submitted" ELSE "Feedback recorded"

\* handleSubmit after its await: submitTrustScore resolved or rejected
SubmitSettles(s, outcome) ==
    /\ popup[s].call = "pending"
    /\ toast' = SubmitToast(outcome)
    /\ popup' = [popup EXCEPT ![s].open = IF outcome = "resolved" THEN FALSE ELSE @,
                              ![s].isSubmitting = FALSE,
                              ![s].call = outcome]
    /\ UNCHANGED <<feed, dash>>
    /\ ui_frame

HandleNotYet(s) ==
    /\ popup[s].open
    /\ toast' = "Reminder set"
    /\ popup' = [popup EXCEPT ![s].open = FALSE]
    /\ UNCHANGED <<feed, dash>>
    /\ ui_frame

PopupStep(s) ==
    \/ OpenPopup(s)
    \/ ClosePopup(s)
    \/ \E star \in StarInputs : SetScore(s, star)
    \/ HandleSubmit(s)
    \/ \E outcome \in {"resolved", "rejected"} : SubmitSettles(s, outcome)
    \/ HandleNotYet(s)

\* a call of session t that the constraints turn down; callers name
\* suggestions from targets
RejectedCallStep(t, targets) ==
    \E rater \in Users, s \in targets, score \in ScoreInputs :
        \/ RejectInvalidScore(t, rater, s, score)
        \/ RejectDuplicate(t, rater, s, score)
        \/ RejectSuggestionNotFound(t, rater, s, score)

\* one step of a call of session t that stores its row; cap bounds the
\* table size
StoredCallStep(t, cap, targets) ==
    \/ \E rater \in Users, s \in targets, score \in ScoreInputs :
          InsertFeedback(t, rater, s, score, cap)
    \/ ReadAggregate(t)
    \/ UpdateBegin(t)
    \/ UpdateEnd(t)
    \/ Commit(t)

\* one step of session t
RecordFeedbackStep(t, cap, targets) ==
    \/ RejectedCallStep(t, targets)
    \/ StoredCallStep(t, cap, targets)

ResponseFlagStep ==
    \/ \E p \in Posts, r \in Responses : MarkAccepted(p, r)
    \/ \E r \in Responses : MarkVerified(r)

\* the feedback engine with the response flags
Next ==
    \/ \E t \in Txns : RecordFeedbackStep(t, MaxFeedback, SuggestionInputs)
    \/ ResponseFlagStep

Spec == Init /\ [][Next]_vars

\* The three specifications below are restrictions of Spec that keep the
\* state space small enough to explore exhaustively.

\* concurrent sessions on all suggestions, response flags left alone
NextRace == \E t \in Txns : RecordFeedbackStep(t, MaxRaceFeedback, SuggestionInputs)
SpecRace == Init /\ [][NextRace]_vars

\* the history of one suggestion: one call after another on the first
\* suggestion (or on the missing one), response flags left alone
NextHistory == RecordFeedbackStep(1, MaxFeedback, OneSuggestion)
SpecHistory == Init /\ [][NextHistory]_vars

\* the trust score of one author: one stored call after another on the
\* first suggestion, interleaved at every step with flag changes
NextTrust ==
    \/ StoredCallStep(1, MaxTrustFeedback, OneSuggestion)
    \/ ResponseFlagStep
SpecTrust == Init /\ [][NextTrust]_vars

\* one call after another on the first suggestion, each of which may fail
\* inside the trigger
NextAbort ==
    \/ StoredCallStep(1, MaxFeedback, OneSuggestion)
    \/ RecomputeFails(1)
SpecAbort == Init /\ [][NextAbort]_vars

\* suggestions of several diseases, rated one call after another and ranked
NextRankSuggestions ==
    \/ StoredCallStep(1, MaxRankFeedback, SuggestionInputs)
    \/ \E d \in Diseases : RankSuggestions(d)
SpecRankSuggestions == InitCatalog /\ [][NextRankSuggestions]_vars

\* users rated one call after another while responses are accepted and
\* verified, and ranked
NextRankContributors ==
    \/ StoredCallStep(1, MaxRankFeedback, SuggestionInputs)
    \/ ResponseFlagStep
    \/ RankContributors
SpecRankContributors == Init /\ [][NextRankContributors]_vars

\* arguments of Get Community Posts with Filters
ResolvedInputs == {"NULL", "true", "false"}
CropInputs == {NULL, 2}
TagInputs == {<<>>, <<{2}>>}
SortInputs == {"popular", "trending", "recent"}

\* posts answered, viewed and resolved one statement after another, and ranked
NextRankPosts ==
    \/ ResponseStep(1)
    \/ \E p \in Posts : ViewPost(p)
    \/ \E p \in Posts, r \in Responses : MarkAccepted(p, r)
    \/ \E resolved \in ResolvedInputs, crop \in CropInputs, tags \in TagInputs,
          sort \in SortInputs, limit \in 1..NumPosts, offset \in 0..1 :
          RankPosts(resolved, crop, tags, sort, limit, offset)
SpecRankPosts == Init /\ [][NextRankPosts]_vars

\* concurrent statements on post_responses
NextCount == \E t \in Txns : ResponseStep(t)
SpecCount == Init /\ [][NextCount]_vars

\* one stored call after another on any suggestion, interleaved at every
\* step with flag changes
NextFrame ==
    \/ StoredCallStep(1, MaxFrameFeedback, Suggestions)
    \/ ResponseFlagStep
SpecFrame == Init /\ [][NextFrame]_vars

\* the community dashboard over any feed
NextDashboard == DashboardStep
SpecDashboard == InitFeed /\ [][NextDashboard]_vars

\* the solution page, the follow-up popups and the notifications table
NextFollowUp ==
    \/ SolutionStep
    \/ \E s \in Suggestions : PopupStep(s)
SpecFollowUp == Init /\ [][NextFollowUp]_vars

\* the index page loading scans
NextIndex == IndexStep
SpecIndex == Init /\ [][NextIndex]_vars

\* the language providers of the open tabs
NextLanguage == LanguageStep
SpecLanguage == Init /\ [][NextLanguage]_vars

\* one question card with its answers
NextQuestion == QuestionStep
SpecQuestion == Init /\ [][NextQuestion]_vars

\* the voice input of the scan page
NextVoice == VoiceStep
SpecVoice == Init /\ [][NextVoice]_vars

\* the community dashboard over a short feed while the language changes
NextRefresh ==
    \/ DashboardStep
    \/ \E code \in Languages : LanguageChanged(code)
SpecRefresh == InitShortFeed /\ [][NextRefresh]_vars

\* one trust score popup per suggestion
NextPopup == \E s \in Suggestions : PopupStep(s)
SpecPopup == Init /\ [][NextPopup]_vars

\* a statement that has started is executed to its end by the server
StatementStep(t) ==
    \/ ReadAggregate(t)
    \/ UpdateBegin(t)
    \/ UpdateEnd(t)
    \/ Commit(t)

\* concurrent sessions whose started statements are never left waiting for
\* the processor
SpecLive == SpecRace /\ \A t \in Txns : WF_vars(StatementStep(t))

\* ================================================================= claims
\* What the specification text prescribes, written out on its own so that the
\* model's operators are compared with it and not with themselves.
FeedbackOf(rows, s) == {f \in Committed(rows) : f.suggestion_id = s}
ReceivedBy(rows, u) == {f \in Committed(rows) : f.farmer_id = u}
InRange(x) == x >= 0 /\ x <= 100 * 100
ClampTo100(x) == IF x < 0 THEN 0 ELSE IF x > 100 * 100 THEN 100 * 100 ELSE x

\* clamp(50 + (mean - 3) * 20, 0, 100) in hundredths; 50 with no feedback
ExpectedUsefulness(rows) ==
    IF rows = {} THEN 50 * 100
    ELSE ClampTo100(RoundDiv(100 * (50 * Cardinality(rows)
                                + 20 * (SumScores(rows) - 3 * Cardinality(rows))),
                             Cardinality(rows)))

\* 50 + 10 * accepted + 5 * mean + 3 * verified, before the clamp, in hundredths
RawTrust(u, fb, acc, ver) ==
    100 * 50
    + 100 * 10 * Cardinality({p \in Posts : acc[p] # NULL /\ ResponseAuthor(acc[p]) = u})
    + (IF ReceivedBy(fb, u) = {} THEN 0
       ELSE RoundDiv(100 * 5 * SumScores(ReceivedBy(fb, u)), Cardinality(ReceivedBy(fb, u))))
    + 100 * 3 * Cardinality({r \in Responses : ResponseAuthor(r) = u /\ ver[r]})
ExpectedTrust(u, fb, acc, ver) == ClampTo100(RawTrust(u, fb, acc, ver))

AllIdle == \A t \in Txns : pc[t] = "idle"
\* suggestions for which the step commits a feedback row
CommittedNow(s) == FeedbackOf(trust_feedback', s) # FeedbackOf(trust_feedback, s)

\* C1: after any sequence of recordFeedback calls interleaved with responses
\* being accepted or verified, every usefulness_score and every trust_score
\* lies in [0, 100].
C1_ScoresInRange ==
    /\ \A s \in Suggestions : InRange(suggestions[s].usefulness_score)
    /\ \A u \in Users : InRange(trust_score[u])

\* a user whose unclamped score is above 100 and who has received feedback
C1_Witness ==
    \E u \in Users :
        /\ ReceivedBy(trust_feedback, u) # {}
        /\ RawTrust(u, trust_feedback, accepted_response_id, is_verified) > 100 * 100
        /\ trust_score[u] = 100 * 100

\* C2: two concurrent submissions by different raters with scores 5 and 1 on
\* one suggestion: once both have completed, usefulness_score is 50.
C2_ConcurrentBothReflected ==
    \A s \in Suggestions :
        (/\ AllIdle
         /\ Cardinality(FeedbackOf(trust_feedback, s)) = 2
         /\ {f.score : f \in FeedbackOf(trust_feedback, s)} = {1, 5})
        => suggestions[s].usefulness_score = 50 * 100

\* C3: at most one Feedback row per (rater, suggestion) pair, committed or
\* in flight.
C3_UniqueFeedback ==
    \A f, g \in trust_feedback :
        (f.user_id = g.user_id /\ f.suggestion_id = g.suggestion_id) => f = g

\* a row in flight while another session is free to submit the same pair and
\* the table has room for it
C3_Witness ==
    \E f \in trust_feedback :
        /\ f.xid # 0
        /\ \E o \in Txns : o # f.xid /\ pc[o] = "idle"
        /\ Cardinality(trust_feedback) < MaxRaceFeedback

\* C4: a second recordFeedback for a (rater, suggestion) pair that already has
\* a Feedback row fails with DuplicateFeedback whatever valid score it carries;
\* the stored row keeps its score and the suggestion's score and counts stay.
C4_Outcome ==
    \A t \in Txns, rater \in Users, s \in Suggestions, score \in MinScore..MaxScore :
        (pc[t] = "idle" /\ \E f \in Committed(trust_feedback) :
                              f.user_id = rater /\ f.suggestion_id = s)
        => /\ ENABLED RejectDuplicate(t, rater, s, score)
           /\ ~ENABLED InsertFeedback(t, rater, s, score, MaxFeedback)
C4_Step ==
    /\ \A f \in Committed(trust_feedback) : f \in trust_feedback'
    /\ response' = "DuplicateFeedback"
          => trust_feedback' = trust_feedback /\ suggestions' = suggestions
C4_DuplicateRejected == []C4_Outcome /\ [][C4_Step]_vars

\* a duplicate was just rejected
C4_Witness == response = "DuplicateFeedback" /\ Committed(trust_feedback) # {}

\* C5: after every successful recordFeedback on a suggestion its
\* usefulness_score is clamp(50 + (mean of all its Feedback scores - 3) * 20).
C5_Step ==
    response' = "UpdatedScores" =>
        \A s \in Suggestions :
            CommittedNow(s) =>
                suggestions'[s].usefulness_score
                    = ExpectedUsefulness(FeedbackOf(trust_feedback', s))
C5_UsefulnessFromHistory == [][C5_Step]_vars

\* C6 as written: three feedbacks of 5 on a fresh suggestion give 100.
C6_ThreeFivesGive100 ==
    \A s \in Suggestions :
        (/\ AllIdle
         /\ Cardinality(FeedbackOf(trust_feedback, s)) = 3
         /\ \A f \in FeedbackOf(trust_feedback, s) : f.score = 5)
        => suggestions[s].usefulness_score = 100 * 100

\* C6 amended: three feedbacks of 5 from three raters on a fresh suggestion
\* give usefulness_score 90.
C6_ThreeFivesGive90 ==
    \A s \in Suggestions :
        (/\ AllIdle
         /\ Cardinality(FeedbackOf(trust_feedback, s)) = 3
         /\ \A f \in FeedbackOf(trust_feedback, s) : f.score = 5)
        => suggestions[s].usefulness_score = 90 * 100

C6_Witness ==
    \E s \in Suggestions :
        /\ AllIdle
        /\ Cardinality(FeedbackOf(trust_feedback, s)) = 3
        /\ \A f \in FeedbackOf(trust_feedback, s) : f.score = 5

\* C7: whenever no recordFeedback is in progress, every suggestion's cached
\* usefulness_score and feedback counts equal the values recomputed from its
\* Feedback history.
C7_CacheMatchesHistory ==
    AllIdle =>
        \A s \in Suggestions :
            LET h == FeedbackOf(trust_feedback, s)
            IN  /\ suggestions[s].usefulness_score = ExpectedUsefulness(h)
                /\ suggestions[s].positive_feedback_count
                      = Cardinality({f \in h : f.score >= 4})
                /\ suggestions[s].negative_feedback_count
                      = Cardinality({f \in h : f.score <= 2})

\* C8: after every successful recordFeedback, and after every step that marks
\* a response accepted or verified, the affected user's stored trust_score is
\* clamp(50 + 10 * accepted + 5 * mean feedback + 3 * verified) of the new state.
C8_Step ==
    /\ response' = "UpdatedScores" =>
          \A u \in Users :
              ReceivedBy(trust_feedback', u) # ReceivedBy(trust_feedback, u)
              => trust_score'[u] = ExpectedTrust(u, trust_feedback',
                                                 accepted_response_id', is_verified')
    /\ \A p \in Posts :
          accepted_response_id'[p] # accepted_response_id[p]
          => trust_score'[ResponseAuthor(accepted_response_id'[p])]
                = ExpectedTrust(ResponseAuthor(accepted_response_id'[p]), trust_feedback',
                                accepted_response_id', is_verified')
    /\ \A r \in Responses :
          is_verified'[r] # is_verified[r]
          => trust_score'[ResponseAuthor(r)]
                = ExpectedTrust(ResponseAuthor(r), trust_feedback',
                                accepted_response_id', is_verified')
C9_ZeroFeedbackIs50 ==
    /\ \A s \in Suggestions :
          FeedbackOf(trust_feedback, s) = {} => suggestions[s].usefulness_score = 50 * 100
    /\ \A u \in Users :
          ReceivedBy(trust_feedback, u) = {} => trust_score[u] = 50 * 100

\* C9 amended: a suggestion without Feedback has usefulness_score 50; a user
\* who has received no Feedback has trust_score
\* clamp(50 + 10 * accepted + 3 * verified), the missing average counting 0,
\* which is 50 when none of the user's responses is accepted or verified.
C9_ZeroFeedbackBaseline ==
    /\ \A s \in Suggestions :
          FeedbackOf(trust_feedback, s) = {} => suggestions[s].usefulness_score = 50 * 100
    /\ \A u \in Users :
          ReceivedBy(trust_feedback, u) = {}
          => trust_score[u] = ClampTo100(
                100 * 50
                + 100 * 10 * Cardinality({p \in Posts : accepted_response_id[p] # NULL
                                  /\ ResponseAuthor(accepted_response_id[p]) = u})
                + 100 * 3 * Cardinality({r \in Responses : ResponseAuthor(r) = u
                                                          /\ is_verified[r]}))

\* a user without feedback whose score was recomputed for an accepted response
C9_Witness ==
    \E u \in Users :
        /\ ReceivedBy(trust_feedback, u) = {}
        /\ \E p \in Posts : accepted_response_id[p] # NULL
                            /\ ResponseAuthor(accepted_response_id[p]) = u
        /\ trust_score[u] > 50 * 100

\* C10: a recordFeedback whose score is not in 1..5 fails with InvalidScore and
\* one whose suggestion does not exist fails with SuggestionNotFound; neither
\* persists a Feedback row nor changes a score or count.
C10_Outcome ==
    /\ \A t \in Txns, rater \in Users, s \in SuggestionInputs, score \in ScoreInputs :
          pc[t] = "idle" =>
            /\ score \notin 1..5
                  => /\ ENABLED RejectInvalidScore(t, rater, s, score)
                     /\ ~ENABLED InsertFeedback(t, rater, s, score, MaxFeedback)
            /\ (score \in 1..5 /\ s \notin Suggestions)
                  => /\ ENABLED RejectSuggestionNotFound(t, rater, s, score)
                     /\ ~ENABLED InsertFeedback(t, rater, s, score, MaxFeedback)
    /\ \A f \in trust_feedback : f.score \in 1..5 /\ f.suggestion_id \in Suggestions
C10_Step ==
    response' \in {"InvalidScore", "SuggestionNotFound"}
        => /\ trust_feedback' = trust_feedback
           /\ suggestions' = suggestions
           /\ trust_score' = trust_score
C11_Step ==
    /\ \A s \in Suggestions :
          LET a == SuggestionAuthor(s)
              h == FeedbackOf(trust_feedback', s)
          IN  \/ /\ suggestions'[s] = suggestions[s]
                 /\ trust_score'[a] = trust_score[a]
              \/ /\ suggestions'[s] =
                        [usefulness_score |-> ExpectedUsefulness(h),
                         positive_feedback_count |-> Cardinality({f \in h : f.score >= 4}),
                         negative_feedback_count |-> Cardinality({f \in h : f.score <= 2})]
                 /\ trust_score'[a] = ExpectedTrust(a, trust_feedback',
                                                    accepted_response_id', is_verified')
    /\ response' = "RecomputeFailed"
          => suggestions' = suggestions /\ trust_score' = trust_score
C12_Step ==
    ranking'.kind = "rankSuggestions" =>
        LET q == ranking'.rows
            key(s) == <<suggestions'[s].usefulness_score,
                        suggestions'[s].positive_feedback_count,
                        trust_score'[SuggestionAuthor(s)]>>
        IN  /\ \A i \in 1..Len(q) : disease_name'[q[i]] = ranking'.arg[1]
            /\ \A i \in 1..(Len(q) - 1) :
                  \/ key(q[i])[1] > key(q[i + 1])[1]
                  \/ /\ key(q[i])[1] = key(q[i + 1])[1]
                     /\ key(q[i])[2] > key(q[i + 1])[2]
                  \/ /\ key(q[i])[1] = key(q[i + 1])[1]
                     /\ key(q[i])[2] = key(q[i + 1])[2]
                     /\ key(q[i])[3] >= key(q[i + 1])[3]
C12_SuggestionsRanked == [][C12_Step]_vars

\* a ranking of two suggestions with equal usefulness_score that the
\* positive_feedback_count decides
C12_Witness ==
    /\ ranking.kind = "rankSuggestions"
    /\ Len(ranking.rows) = 2
    /\ suggestions[ranking.rows[1]].usefulness_score
          = suggestions[ranking.rows[2]].usefulness_score
    /\ suggestions[ranking.rows[1]].positive_feedback_count
          > suggestions[ranking.rows[2]].positive_feedback_count

\* C13: ranking is deterministic: in every state rankSuggestions has one
\* possible result for each disease, in which suggestions equal on all three
\* keys come oldest first.
C13_RankingDeterministic ==
    \A d \in Diseases :
        \A q \in RankSuggestionsResults(d) :
            /\ \A o \in RankSuggestionsResults(d) : o = q
            /\ \A i \in 1..(Len(q) - 1) :
                  SuggestionOrderKey(q[i]) = SuggestionOrderKey(q[i + 1])
                  => SuggestionCreatedAt(q[i]) < SuggestionCreatedAt(q[i + 1])

\* C14: rankContributors returns farmers by trust_score descending and, among
\* equal trust_score, by accepted response count descending.
C14_Step ==
    ranking'.kind = "rankContributors" =>
        LET q == ranking'.rows
            accepted(u) ==
                Cardinality({p \in Posts :
                                /\ accepted_response_id'[p] # NULL
                                /\ ResponseAuthor(accepted_response_id'[p]) = u})
        IN  /\ \A i \in 1..Len(q) : UserRole(q[i]) = "farmer"
            /\ \A i \in 1..(Len(q) - 1) :
                  \/ trust_score'[q[i]] > trust_score'[q[i + 1]]
                  \/ /\ trust_score'[q[i]] = trust_score'[q[i + 1]]
                     /\ accepted(q[i]) >= accepted(q[i + 1])
C15_Step ==
    (ranking'.kind = "rankPosts" /\ ranking'.arg[1] = "popular") =>
        LET q == ranking'.rows
        IN  \A i \in 1..(Len(q) - 1) :
                \/ response_count'[q[i]] > response_count'[q[i + 1]]
                \/ /\ response_count'[q[i]] = response_count'[q[i + 1]]
                   /\ view_count'[q[i]] > view_count'[q[i + 1]]
                \/ /\ response_count'[q[i]] = response_count'[q[i + 1]]
                   /\ view_count'[q[i]] = view_count'[q[i + 1]]
                   /\ PostCreatedAt(q[i]) >= PostCreatedAt(q[i + 1])
C15_PopularOrder == [][C15_Step]_vars

\* C17: after any sequence of response insertions and deletions, concurrent
\* ones included, each post's response_count equals the number of Response
\* rows that reference the post, and is never negative.
C17_ResponseCountMatches ==
    \A p \in Posts :
        /\ response_count[p] = Cardinality({r \in post_responses : r.post_id = p /\ r.xmin = 0})
        /\ response_count[p] >= 0

\* a statement has changed the count of a post while another statement on the
\* same post is under way
C17_Witness ==
    \E t, o \in Txns :
        /\ t # o
        /\ rtx[t].pc = "fired"
        /\ rtx[t].seen # response_count[rtx[t].post]

\* C18: every recordFeedback call eventually finishes, with updated scores or
\* with one of the listed errors; under weak fairness concurrent calls never
\* block for ever.
C18_Outcomes ==
    response \in {"none", "UpdatedScores", "InvalidScore", "DuplicateFeedback",
                  "SuggestionNotFound", "ConcurrentUpdateConflict"}
C19_Step ==
    \A u \in Users :
        LET new == ReceivedBy(trust_feedback', u) \ ReceivedBy(trust_feedback, u)
        IN  (/\ new # {}
             /\ accepted_response_id' = accepted_response_id
             /\ is_verified' = is_verified)
            => \A f \in new :
                  /\ f.score >= 4 => trust_score'[u] >= trust_score[u]
                  /\ f.score <= 2 => trust_score'[u] <= trust_score[u]
C19_TrustMonotone == [][C19_Step]_vars

\* C16: post filters are applied before truncation: once a page is on
\* screen, the cards shown are the first PageLimit posts, in feed order, among
\* all posts of the feed that match the search text and the tab.
C16_FilterBeforeTruncation ==
    (~dash.isLoading /\ dash.posts # <<>>) =>
        LET matching == SelectSeq(feed, LAMBDA scan :
                            /\ MatchesSearch(scan.crop_name, dash.searchQuery)
                            /\ InTab(scan.comments_count >= ResolvedThreshold, dash.tab))
            page == Limit(matching, PageLimit, PageSkip)
        IN  ShownPosts = [i \in 1..Len(page) |-> page[i].id]

\* C20: no failure of a feedback submission is swallowed: a step in which
\* the submitTrustScore call of a popup settles as rejected never leaves the
\* user with a notice that the feedback was recorded or submitted.
C20_Step ==
    \A s \in Suggestions :
        (popup[s].call = "pending" /\ popup'[s].call = "rejected") =>
            toast' \notin {"Feedback recorded", "Feedback submitted"}
C20_FailureReported == [][C20_Step]_vars

\* C23: a step of a recordFeedback call of session t on suggestion S leaves
\* the accepted and verified flags, every other Feedback row, every other
\* suggestion's scores and counts and every user's trust score but that of
\* the feedback's target user unchanged; the only row it adds is its own.
C23_Step ==
    \A t \in Txns :
        pc'[t] # pc[t] =>
            LET new == CHOOSE f \in trust_feedback \cup trust_feedback' : f.xid = t
            IN  /\ is_verified' = is_verified
                /\ accepted_response_id' = accepted_response_id
                /\ \A f \in trust_feedback : f.xid # t => f \in trust_feedback'
                /\ \A f \in trust_feedback' :
                      \/ f \in trust_feedback
                      \/ /\ f.user_id = new.user_id
                         /\ f.suggestion_id = new.suggestion_id
                         /\ f.score = new.score
                /\ \A s \in Suggestions \ {new.suggestion_id} :
                      suggestions'[s] = suggestions[s]
                /\ \A u \in Users \ {new.farmer_id} : trust_score'[u] = trust_score[u]
C23_OnlyTargetChanges == [][C23_Step]_vars

\* a call has just succeeded while a response is accepted, a response is
\* verified, and the other suggestion holds an earlier Feedback row and a
\* score moved by it
C23_Witness ==
    /\ response = "UpdatedScores"
    /\ \E p \in Posts : accepted_response_id[p] # NULL
    /\ \E r \in Responses : is_verified[r]
    /\ \A s \in Suggestions : \E f \in Committed(trust_feedback) : f.suggestion_id = s
    /\ \A s \in Suggestions : suggestions[s].usefulness_score # BaseScore * Scale

C21_Step ==
    (/\ browser'.solution.selectedSuggestion # browser.solution.selectedSuggestion
     /\ browser'.solution.selectedSuggestion # NULL) =>
        \E n \in notifications' \ notifications :
            /\ n.type = "trust_score_followup"
            /\ n.suggestionId = browser'.solution.selectedSuggestion
            /\ n.sent_at = NULL
            /\ n.scheduled_for - n.created_at \in 10..15
C21_FollowUpScheduled == [][C21_Step]_vars

\* C22: once a scan is loaded, a detection result that says the disease is
\* not common shows the rare-disease prompt and no community advice, and one
\* that says it is common and carries advice shows the advice and no prompt.
C22_RarePromptFollowsIsCommon ==
    (~browser.index.isLoading /\ browser.index.received # NoScanData) =>
        /\ browser.index.received.isCommon = "false" =>
              ShowsRarePrompt /\ ~ShowsCommunityAdvice
        /\ browser.index.received.isCommon = "true" =>
              /\ ~ShowsRarePrompt
              /\ browser.index.diseaseData.communityAdvice > 0 => ShowsCommunityAdvice

\* C24: state and storage agree on the language: once a language has been
\* set and every storage event has been handled, the currentLanguage of
\* every tab equals the value of preferredLanguage in localStorage.
C24_TabsAgreeWithStorage ==
    (/\ browser.language.preferredLanguage # "none"
     /\ \A tab \in BrowserTabs : browser.language.storageEvents[tab] = <<>>) =>
        \A tab \in BrowserTabs :
            browser.language.currentLanguage[tab] = browser.language.preferredLanguage

\* C28: at most one helpful vote per answer: whenever the answers are on
\* screen, every answer the user has marked as helpful shows its initial
\* count plus one and a disabled vote button.
C28_OneHelpfulVote ==
    browser.question.showAnswers =>
        \A a \in browser.question.clicked :
            /\ browser.question.cards[a].helpfulCount = AnswerHelpful(a) + 1
            /\ browser.question.cards[a].hasVoted

\* C29: every transcription request carries the chunks of the recording
\* whose stop produced it and no others, each stopped recording has produced
\* exactly one request, and no recorder is recording while isTranscribing
\* holds.
C29_RequestHasOwnChunks ==
    /\ \A i \in DOMAIN browser.voice.requests :
          \A j \in DOMAIN browser.voice.requests[i].blob :
              browser.voice.requests[i].blob[j] = browser.voice.requests[i].recorder
    /\ \A r \in Recorders :
          browser.voice.recorder[r] = "stopped" =>
              Cardinality({i \in DOMAIN browser.voice.requests :
                              browser.voice.requests[i].recorder = r}) = 1
    /\ browser.voice.isTranscribing =>
          \A r \in Recorders : browser.voice.recorder[r] # "recording"

\* C30: a slower, older response never overwrites a newer one: once no
\* request is in flight and the most recently started request has delivered
\* its scans, the posts on screen are the ones it delivered, fetched for the
\* language now selected.
C30_NewestResponseShown ==
    (dash.pending = {} /\ dash.started > 0 /\ dash.newestLoaded = dash.started) =>
        /\ dash.shown.id = dash.started
        /\ dash.shown.language = dash.currentLanguage

TypeOK ==
    /\ \A f \in trust_feedback : f.score \in MinScore..MaxScore
    /\ \A t \in Txns : pc[t] \in {"idle", "inserted", "read", "updating", "written"}

====
